---- MODULE Spec2Model ----
(***************************************************************************)
(* Model of nlpipe's task queue: nlpipe/client.py (get_id, FSClient).      *)
(*                                                                         *)
(* The store is the directory tree under result_dir: a map from paths     *)
(* <<module, subdir, id>> to files.  Every FSClient call is split at its   *)
(* file-system calls (exists, open, write/close, listdir, stat, rename,    *)
(* remove), so that calls of different processes interleave as they do on  *)
(* a shared directory.                                                     *)
(***************************************************************************)
EXTENDS Integers, Sequences, FiniteSets, TLC

VARIABLES fs, dirs, clock, pr, calls, snap, submitted, handed, twice

vars == <<fs, dirs, clock, pr, calls, snap, submitted, handed, twice>>

(***************************************************************************)
(* Bounds of the model.                                                    *)
(***************************************************************************)
\* Largest value of the file-system clock (timestamps are 0..MaxClock).
MaxClock == 1
\* Calls one process makes in a run.
MaxCalls == 3

Procs == {"p1", "p2"}
Modules == {"m1", "m2"}

(***************************************************************************)
(* Strings.  A Python str is written as the TLA+ string of the same        *)
(* characters; chars gives its characters, for the operations that look    *)
(* at them (len, startswith, concatenation, newline translation), and str  *)
(* goes back.  Universe holds the strings the runs below produce.          *)
(***************************************************************************)
\* Python's None.
None == "None"

docA == "a"
docB == "b\r"
\* A document of 34 characters that begins with "0x" and is no hex number.
docZ == "0xZZZZZZZZZZZZZZZZZZZZZZZZZZZZZZZZ"
textX == "X"
textY == "Y\r\nZ"

Universe ==
    {"",
     "a",
     "b\r",
     "b\n",
     "X",
     "Y\r\nZ",
     "Y\nZ",
     "0x0cc175b9c0f1b6a831c399e269772661",
     "0x351e12d172f9cc1c7680570daa1d3b12",
     "0xZZZZZZZZZZZZZZZZZZZZZZZZZZZZZZZZ",
     "0x621b69f098783f3683563597d0f09bde"}

chars(s) ==
    CASE s = "" ->
           <<>>
      [] s = "a" ->
           <<"a">>
      [] s = "b\r" ->
           <<"b","\r">>
      [] s = "b\n" ->
           <<"b","\n">>
      [] s = "X" ->
           <<"X">>
      [] s = "Y\r\nZ" ->
           <<"Y","\r","\n","Z">>
      [] s = "Y\nZ" ->
           <<"Y","\n","Z">>
      [] s = "0x0cc175b9c0f1b6a831c399e269772661" ->
           <<"0","x","0","c","c","1","7","5","b","9","c","0","f","1","b","6",
             "a","8","3","1","c","3","9","9","e","2","6","9","7","7","2","6",
             "6","1">>
      [] s = "0x351e12d172f9cc1c7680570daa1d3b12" ->
           <<"0","x","3","5","1","e","1","2","d","1","7","2","f","9","c","c",
             "1","c","7","6","8","0","5","7","0","d","a","a","1","d","3","b",
             "1","2">>
      [] s = "0xZZZZZZZZZZZZZZZZZZZZZZZZZZZZZZZZ" ->
           <<"0","x","Z","Z","Z","Z","Z","Z","Z","Z","Z","Z","Z","Z","Z","Z",
             "Z","Z","Z","Z","Z","Z","Z","Z","Z","Z","Z","Z","Z","Z","Z","Z",
             "Z","Z">>
      [] s = "0x621b69f098783f3683563597d0f09bde" ->
           <<"0","x","6","2","1","b","6","9","f","0","9","8","7","8","3","f",
             "3","6","8","3","5","6","3","5","9","7","d","0","f","0","9","b",
             "d","e">>

str(cs) == CHOOSE s \in Universe : chars(s) = cs

\* hashlib.md5(doc.encode("utf-8")).hexdigest() of the documents used here.
md5_hexdigest(doc) ==
    CASE doc = docA ->
           <<"0","c","c","1","7","5","b","9","c","0","f","1","b","6","a","8",
             "3","1","c","3","9","9","e","2","6","9","7","7","2","6","6","1">>
      [] doc = docB ->
           <<"3","5","1","e","1","2","d","1","7","2","f","9","c","c","1","c",
             "7","6","8","0","5","7","0","d","a","a","1","d","3","b","1","2">>
      [] doc = docZ ->
           <<"6","2","1","b","6","9","f","0","9","8","7","8","3","f","3","6",
             "8","3","5","6","3","5","9","7","d","0","f","0","9","b","d","e">>

\* len(doc) == 34: the length of "0x" followed by 32 hex digits.
IdLen == 34

get_id(doc) ==
    IF Len(chars(doc)) = IdLen /\ SubSeq(chars(doc), 1, 2) = <<"0", "x">>
    THEN doc
    ELSE str(<<"0", "x">> \o md5_hexdigest(doc))

idA == get_id(docA)
idB == get_id(docB)

\* Documents submitted, texts stored as results or errors, ids asked about.
DocPool == {docA, docB, idA}
TextPool == {textX, textY}
IdPool == {idA, idB}

(***************************************************************************)
(* open(fn, encoding="UTF-8").read(): text mode with universal newlines,   *)
(* "\r\n" and "\r" are read as "\n".  (Writing in text mode on POSIX       *)
(* leaves the characters as they are.)                                     *)
(***************************************************************************)
RECURSIVE universal_newlines(_)
universal_newlines(cs) ==
    IF cs = <<>> THEN <<>>
    ELSE IF Head(cs) = "\r"
         THEN IF Len(cs) >= 2 /\ cs[2] = "\n"
              THEN <<"\n">> \o universal_newlines(SubSeq(cs, 3, Len(cs)))
              ELSE <<"\n">> \o universal_newlines(Tail(cs))
         ELSE <<Head(cs)>> \o universal_newlines(Tail(cs))

read_text(s) == str(universal_newlines(chars(s)))

\* A write of doc at offset 0 of a file that holds old.
write_text(old, doc) ==
    str(chars(doc) \o SubSeq(chars(old), Len(chars(doc)) + 1, Len(chars(old))))

(***************************************************************************)
(* STATUS: status names and their subdirectories, in the dict's order.     *)
(***************************************************************************)
STATUS == [PENDING |-> "queue", STARTED |-> "inprogress",
           DONE |-> "results", ERROR |-> "errors"]
\* A mutated STATUS_keys: the errors subdirectory is not looked into.
STATUS_keys_short == <<"PENDING", "STARTED", "DONE">>

STATUS_keys == <<"PENDING", "STARTED", "DONE", "ERROR">>

\* A mutated _filename: the module is left out of the path (every module
\* shares the directories of "m1").
_filename_shared(module, status, id) == <<"m1", STATUS[status], id>>

_filename(module, status, id) == <<module, STATUS[status], id>>

exists(f, path) == path \in DOMAIN f

\* os.listdir of a module's subdirectory: the ids of its files.
listdir(f, module, status) ==
    {q[3] : q \in {x \in DOMAIN f : x[1] = module /\ x[2] = STATUS[status]}}

\* A mutated remove: every record of the path's id goes, whatever its
\* subdirectory.
remove_id(f, path) ==
    [q \in {x \in DOMAIN f : x[1] # path[1] \/ x[3] # path[3]} |-> f[q]]

remove(f, path) == [q \in DOMAIN f \ {path} |-> f[q]]

\* FSClient.status as one lookup of store f (the four exists tests in order).
status_of(f, module, id) ==
    IF exists(f, _filename(module, "PENDING", id)) THEN "PENDING"
    ELSE IF exists(f, _filename(module, "STARTED", id)) THEN "STARTED"
    ELSE IF exists(f, _filename(module, "DONE", id)) THEN "DONE"
    ELSE IF exists(f, _filename(module, "ERROR", id)) THEN "ERROR"
    ELSE "UNKNOWN"

\* The containers that hold a record of (module, id).
holders(f, module, id) ==
    {s \in DOMAIN STATUS : exists(f, _filename(module, s, id))}

EmptyFS == [q \in {} |-> 0]

(***************************************************************************)
(* Processes: one call at a time each.                                     *)
(*   op      the FSClient method being run ("-" before the first call)     *)
(*   pc      the next file-system call of that method, or "done"           *)
(*   st      the local variable status; scan: position of status()'s loop  *)
(*   files   the listing get_task took                                     *)
(*   ret     how the call ended: returned a value or raised                *)
(* and, for a call made from a method of Client or HTTPClient or from a     *)
(* handler of the REST server:                                             *)
(*   outer   that method (process_inline, get_tasks, HTTPClient.status...) *)
(*   handler the REST handler serving the request                          *)
(*   at      the position in them                                          *)
(*   n, items  get_tasks: its argument n, the pairs yielded                *)
(*   ids, items  bulk_status: the ids left, the statuses gathered          *)
(*   resp    the HTTP response; out: how the outer method ended            *)
(***************************************************************************)
NoRet == [kind |-> "none", val |-> None]
Return(v) == [kind |-> "return", val |-> v]
Raise(exc, v) == [kind |-> exc, val |-> v]

\* An HTTP response: status code, the Status and ID headers, the body.
NoResp == [code |-> 0, Status |-> None, ID |-> None, text |-> None]

Idle == [op |-> "-", pc |-> "done", module |-> "-", id |-> None, doc |-> None,
         st |-> "-", scan |-> 1, files |-> {}, ret |-> NoRet,
         outer |-> "-", handler |-> "-", at |-> "-",
         n |-> 0, items |-> <<>>, ids |-> <<>>, resp |-> NoResp,
         out |-> NoRet]

Quiescent == \A q \in Procs : pr[q].pc = "done"

(***************************************************************************)
(* History, for the statements about it (no call reads it):                *)
(*   snap       the store when the latest call began                       *)
(*   submitted  the tasks in the order their PENDING records were created  *)
(*   handed     the tasks get_task has returned; twice: more than once     *)
(***************************************************************************)
hist == <<submitted, handed, twice>>

Init ==
    /\ fs = EmptyFS
    /\ dirs = {}
    /\ clock = 0
    /\ pr = [p \in Procs |-> Idle]
    /\ calls = [p \in Procs |-> 0]
    /\ snap = EmptyFS
    /\ submitted = <<>>
    /\ handed = {}
    /\ twice = {}

\* Time passes on the file system's clock; two writes within one tick get
\* the same timestamp.
Tick ==
    /\ clock < MaxClock
    /\ clock' = clock + 1
    /\ UNCHANGED <<fs, dirs, pr, calls, snap, hist>>

Begin(p, r) ==
    /\ pr[p].pc = "done"
    /\ pr' = [pr EXCEPT ![p] = r]
    /\ snap' = fs
    /\ UNCHANGED <<fs, dirs, clock, hist>>

\* FSClient.process(module, doc): id = get_id(doc), then status().
process(p, module, doc) ==
    Begin(p, [Idle EXCEPT !.op = "process", !.pc = "status", !.module = module,
                          !.id = get_id(doc), !.doc = doc])

\* FSClient.status(module, id).
status(p, module, id) ==
    Begin(p, [Idle EXCEPT !.op = "status", !.pc = "status", !.module = module,
                          !.id = id])

\* FSClient.result(module, id) with format=None.
result(p, module, id) ==
    Begin(p, [Idle EXCEPT !.op = "result", !.pc = "status", !.module = module,
                          !.id = id])

\* FSClient.get_task(module).
get_task(p, module) ==
    Begin(p, [Idle EXCEPT !.op = "get_task", !.pc = "listdir",
                          !.module = module])

\* FSClient.store_result(module, id, result).
store_result(p, module, id, text) ==
    Begin(p, [Idle EXCEPT !.op = "store_result", !.pc = "status",
                          !.module = module, !.id = id, !.doc = text])

\* FSClient.store_error(module, id, result).
store_error(p, module, id, text) ==
    Begin(p, [Idle EXCEPT !.op = "store_error", !.pc = "status",
                          !.module = module, !.id = id, !.doc = text])

(***************************************************************************)
(* The steps of the calls.                                                 *)
(***************************************************************************)
Done(r, ret) == [r EXCEPT !.pc = "done", !.ret = ret]

\* A mutated after_status: process writes its document also when the task
\* is PENDING.
after_status_resubmit(r, s) ==
    CASE r.op = "status" -> Done([r EXCEPT !.st = s], Return(s))
      [] r.op = "process" ->
           IF s \in {"UNKNOWN", "PENDING"}
           THEN [r EXCEPT !.st = s, !.pc = "check_dirs"]
           ELSE Done([r EXCEPT !.st = s], Return(r.id))
      [] r.op = "result" ->
           IF s \in {"DONE", "ERROR"}
           THEN [r EXCEPT !.st = s, !.pc = "read"]
           ELSE Done([r EXCEPT !.st = s], Raise("ValueError", None))
      [] r.op \in {"store_result", "store_error"} ->
           IF s \in {"STARTED", "DONE", "ERROR"}
           THEN [r EXCEPT !.st = s, !.pc = "check_dirs"]
           ELSE Done([r EXCEPT !.st = s], Raise("ValueError", None))

\* A mutated after_status: the store calls accept a PENDING task.
after_status_store_pending(r, s) ==
    CASE r.op = "status" -> Done([r EXCEPT !.st = s], Return(s))
      [] r.op = "process" ->
           IF s = "UNKNOWN"
           THEN [r EXCEPT !.st = s, !.pc = "check_dirs"]
           ELSE Done([r EXCEPT !.st = s], Return(r.id))
      [] r.op = "result" ->
           IF s \in {"DONE", "ERROR"}
           THEN [r EXCEPT !.st = s, !.pc = "read"]
           ELSE Done([r EXCEPT !.st = s], Raise("ValueError", None))
      [] r.op \in {"store_result", "store_error"} ->
           IF s \in {"PENDING", "STARTED", "DONE", "ERROR"}
           THEN [r EXCEPT !.st = s, !.pc = "check_dirs"]
           ELSE Done([r EXCEPT !.st = s], Raise("ValueError", None))

\* What each method does with the value of self.status(module, id).
after_status(r, s) ==
    CASE r.op = "status" -> Done([r EXCEPT !.st = s], Return(s))
      [] r.op = "process" ->
           IF s = "UNKNOWN"
           THEN [r EXCEPT !.st = s, !.pc = "check_dirs"]
           ELSE Done([r EXCEPT !.st = s], Return(r.id))
      [] r.op = "result" ->
           IF s \in {"DONE", "ERROR"}
           THEN [r EXCEPT !.st = s, !.pc = "read"]
           ELSE Done([r EXCEPT !.st = s], Raise("ValueError", None))
      [] r.op \in {"store_result", "store_error"} ->
           IF s \in {"STARTED", "DONE", "ERROR"}
           THEN [r EXCEPT !.st = s, !.pc = "check_dirs"]
           ELSE Done([r EXCEPT !.st = s], Raise("ValueError", None))

\* FSClient.status: one os.path.exists test of the loop over STATUS.keys().
status_exists(p) ==
    /\ pr[p].pc = "status"
    /\ LET r == pr[p]
           key == STATUS_keys[r.scan]
       IN  pr' = [pr EXCEPT ![p] =
                    IF exists(fs, _filename(r.module, key, r.id))
                    THEN after_status(r, key)
                    ELSE IF r.scan = Len(STATUS_keys)
                         THEN after_status(r, "UNKNOWN")
                         ELSE [r EXCEPT !.scan = @ + 1]]
    /\ UNCHANGED <<fs, dirs, clock, calls, snap, hist>>

\* The container a call writes into.
target(op) ==
    CASE op = "process" -> "PENDING"
      [] op = "store_result" -> "DONE"
      [] op = "store_error" -> "ERROR"

\* The statuses whose record a store call removes after its write.
cleared(op) ==
    CASE op = "store_result" -> {"STARTED", "ERROR"}
      [] op = "store_error" -> {"STARTED", "DONE"}
      [] OTHER -> {}

\* FSClient._write: _check_dirs(module) makes the four directories of the
\* module; those that are there stay as they are.
_check_dirs(p) ==
    /\ pr[p].pc = "check_dirs"
    /\ dirs' = dirs \cup {pr[p].module}
    /\ pr' = [pr EXCEPT ![p] = [@ EXCEPT !.pc = "open"]]
    /\ UNCHANGED <<fs, clock, calls, snap, hist>>

\* FSClient._write: open(fn, 'w') creates the file empty or truncates the
\* one that is there; the process holds it open.
write_open(p) ==
    /\ pr[p].pc = "open"
    /\ LET r == pr[p]
           fn == _filename(r.module, target(r.op), r.id)
           held == IF exists(fs, fn) THEN fs[fn].w ELSE {}
       IN  /\ fs' = (fn :> [content |-> "", ctime |-> clock,
                            w |-> held \cup {p}]) @@ fs
           /\ pr' = [pr EXCEPT ![p] = [r EXCEPT !.pc = "write"]]
           /\ submitted' = IF r.op = "process" /\ ~exists(fs, fn)
                           THEN Append(submitted, <<r.module, r.id>>)
                           ELSE submitted
    /\ UNCHANGED <<dirs, clock, calls, snap, handed, twice>>

\* FSClient._write: .write(doc) and the close of the file object.  The text
\* goes to the file the process opened, wherever a rename has put it since;
\* it is lost when that file has been removed.  A write of the empty text
\* writes no byte, and the file keeps the change time it had.
write_close(p) ==
    /\ pr[p].pc = "write"
    /\ LET r == pr[p]
           open == {q \in DOMAIN fs : p \in fs[q].w}
       IN  /\ fs' = [q \in DOMAIN fs |->
                       IF q \in open
                       THEN [content |-> write_text(fs[q].content, r.doc),
                             ctime |-> IF r.doc = "" THEN fs[q].ctime
                                       ELSE clock,
                             w |-> fs[q].w \ {p}]
                       ELSE fs[q]]
           /\ pr' = [pr EXCEPT ![p] =
                       IF r.op = "process" THEN Done(r, Return(r.id))
                       ELSE IF r.st \in cleared(r.op)
                            THEN [r EXCEPT !.pc = "delete"]
                            ELSE Done(r, Return(None))]
    /\ UNCHANGED <<dirs, clock, calls, snap, hist>>

\* FSClient._delete(module, status, id): os.remove of the prior record.
delete(p) ==
    /\ pr[p].pc = "delete"
    /\ LET r == pr[p]
           fn == _filename(r.module, r.st, r.id)
       IN  IF exists(fs, fn)
           THEN /\ fs' = remove(fs, fn)
                /\ pr' = [pr EXCEPT ![p] = Done(r, Return(None))]
           ELSE /\ fs' = fs
                /\ pr' = [pr EXCEPT ![p] =
                            Done(r, Raise("FileNotFoundError", None))]
    /\ UNCHANGED <<dirs, clock, calls, snap, hist>>

\* FSClient.get_task: os.listdir of the PENDING directory.
get_task_listdir(p) ==
    /\ pr[p].pc = "listdir"
    /\ LET r == pr[p]
           files == listdir(fs, r.module, "PENDING")
       IN  pr' = [pr EXCEPT ![p] =
                    IF r.module \notin dirs \/ files = {}
                    THEN Done(r, Return(<<None, None>>))
                    ELSE [r EXCEPT !.files = files, !.pc = "min"]]
    /\ UNCHANGED <<fs, dirs, clock, calls, snap, hist>>

\* The listed files min() may return: those of the smallest ctime (listdir's
\* order, which breaks ties, is arbitrary).
oldest(f, module, files) ==
    {id \in files :
        \A other \in files :
            f[_filename(module, "PENDING", id)].ctime
              <= f[_filename(module, "PENDING", other)].ctime}

\* FSClient.get_task: min(files, key=getctime); getctime raises when a
\* listed file is gone.
get_task_min(p) ==
    /\ pr[p].pc = "min"
    /\ LET r == pr[p]
       IN  IF \E id \in r.files : ~exists(fs, _filename(r.module, "PENDING", id))
           THEN pr' = [pr EXCEPT ![p] =
                         Done(r, Raise("FileNotFoundError", None))]
           ELSE \E id \in oldest(fs, r.module, r.files) :
                   pr' = [pr EXCEPT ![p] = [r EXCEPT !.id = id, !.pc = "move"]]
    /\ UNCHANGED <<fs, dirs, clock, calls, snap, hist>>

\* A mutated rename: a copy, which leaves the file at fn_from in place.
rename_copy(f, fn_from, fn_to, now) ==
    (fn_to :> [f[fn_from] EXCEPT !.ctime = now]) @@ f

\* os.rename(fn_from, fn_to): atomic; it replaces a file at fn_to, fails
\* when fn_from is gone, and stamps the file's ctime.
rename(f, fn_from, fn_to, now) ==
    (fn_to :> [f[fn_from] EXCEPT !.ctime = now]) @@ remove(f, fn_from)

\* FSClient._move(module, id, 'PENDING', 'STARTED') in get_task.
get_task_move(p) ==
    /\ pr[p].pc = "move"
    /\ LET r == pr[p]
           fn_from == _filename(r.module, "PENDING", r.id)
           fn_to == _filename(r.module, "STARTED", r.id)
       IN  IF exists(fs, fn_from)
           THEN /\ fs' = rename(fs, fn_from, fn_to, clock)
                /\ pr' = [pr EXCEPT ![p] =
                            [r EXCEPT !.st = "STARTED", !.pc = "read"]]
           ELSE /\ fs' = fs
                /\ pr' = [pr EXCEPT ![p] =
                            Done(r, Raise("FileNotFoundError", None))]
    /\ UNCHANGED <<dirs, clock, calls, snap, hist>>

\* FSClient._read(module, status, id) in get_task and in result.
read(p) ==
    /\ pr[p].pc = "read"
    /\ LET r == pr[p]
           fn == _filename(r.module, r.st, r.id)
           text == read_text(fs[fn].content)
           task == <<r.module, r.id>>
       IN  IF ~exists(fs, fn)
           THEN /\ pr' = [pr EXCEPT ![p] =
                            Done(r, Raise("FileNotFoundError", None))]
                /\ UNCHANGED <<handed, twice>>
           ELSE IF r.op = "get_task"
           THEN /\ pr' = [pr EXCEPT ![p] = Done(r, Return(<<r.id, text>>))]
                /\ handed' = handed \cup {task}
                /\ twice' = IF task \in handed THEN twice \cup {task} ELSE twice
           ELSE /\ pr' = [pr EXCEPT ![p] =
                            IF r.st = "DONE" THEN Done(r, Return(text))
                            ELSE Done(r, Raise("Exception", text))]
                /\ UNCHANGED <<handed, twice>>
    /\ UNCHANGED <<fs, dirs, clock, calls, snap, submitted>>

\* One file-system call of the call process p is in.
Step(p) ==
    \/ status_exists(p)
    \/ _check_dirs(p)
    \/ write_open(p)
    \/ write_close(p)
    \/ delete(p)
    \/ get_task_listdir(p)
    \/ get_task_min(p)
    \/ get_task_move(p)
    \/ read(p)

\* A call any client or worker may make.
Call(p, modules, docs, ids, results, errors) ==
    \/ \E m \in modules, d \in docs : process(p, m, d)
    \/ \E m \in modules : get_task(p, m)
    \/ \E m \in modules, id \in ids, t \in results : store_result(p, m, id, t)
    \/ \E m \in modules, id \in ids, t \in errors : store_error(p, m, id, t)
    \/ \E m \in modules, id \in ids : status(p, m, id)
    \/ \E m \in modules, id \in ids : result(p, m, id)

(***************************************************************************)
(* SpecSeq: one client makes call after call (no two calls overlap).       *)
(***************************************************************************)
NextSeq ==
    \/ Tick
    \/ /\ Call("p1", {"m1"}, DocPool, IdPool, TextPool, TextPool)
       /\ UNCHANGED calls
    \/ Step("p1")

SpecSeq == Init /\ [][NextSeq]_vars

(***************************************************************************)
(* Spec: the calls of the processes on one task interleave freely; every   *)
(* process makes at most MaxCalls calls.                                   *)
(***************************************************************************)
Next ==
    \/ Tick
    \/ \E p \in Procs :
          /\ calls[p] < MaxCalls
          /\ calls' = [calls EXCEPT ![p] = @ + 1]
          /\ Call(p, {"m1"}, {docA}, {idA}, {textX}, {textY})
    \/ \E p \in Procs : Step(p)

Spec == Init /\ [][Next]_vars

(***************************************************************************)
(* SpecClaim: documents are submitted by process calls that complete, one  *)
(* after the other; then the workers call get_task concurrently.           *)
(***************************************************************************)
Claiming == \E q \in Procs : calls[q] > 0

NextClaim ==
    \/ Tick
    \/ \E p \in Procs, d \in {docA, docB} :
          /\ Quiescent /\ ~Claiming
          /\ process(p, "m1", d)
          /\ UNCHANGED calls
    \/ \E p \in Procs :
          /\ \A q \in Procs : pr[q].op = "process" => pr[q].pc = "done"
          /\ calls[p] < MaxCalls
          /\ calls' = [calls EXCEPT ![p] = @ + 1]
          /\ get_task(p, "m1")
    \/ \E p \in Procs :
          \/ status_exists(p)
          \/ _check_dirs(p)
          \/ write_open(p)
          \/ write_close(p)
          \/ get_task_listdir(p)
          \/ get_task_min(p)
          \/ get_task_move(p)
          \/ read(p)

SpecClaim == Init /\ [][NextClaim]_vars

(***************************************************************************)
(* Claims.                                                                 *)
(***************************************************************************)
IsTask(v) == v # None
Returned(p, op) ==
    pr[p].op = op /\ pr[p].pc = "done" /\ pr[p].ret.kind = "return"
Finished(p, op) == pr[p].op = op /\ pr[p].pc = "done"

\* C1: claim exclusivity.  In every interleaving of the workers' get_task
\* calls on a queue whose tasks were submitted by process calls that had
\* completed, no task id is returned by get_task more than once.
C1_ClaimExclusive == twice = {}

\* Two workers chose the same id: one got it, the other's call has ended.
C1_Witness ==
    \E p, q \in Procs :
        /\ p # q
        /\ Returned(p, "get_task") /\ IsTask(pr[p].ret.val[1])
        /\ Finished(q, "get_task") /\ pr[q].id = pr[p].ret.val[1]

\* C2: no lost claims.  When each of the N workers has called get_task once
\* on a queue that held N PENDING tasks, every call has returned a task
\* (none raised, none returned (None, None)) and the ids are distinct.
C2_NoLostClaims ==
    ( /\ \A p \in Procs : calls[p] = 1 /\ Finished(p, "get_task")
      /\ Cardinality(listdir(fs, "m1", "PENDING")
                       \cup listdir(fs, "m1", "STARTED")) = Cardinality(Procs) )
    => /\ \A p \in Procs :
             pr[p].ret.kind = "return" /\ IsTask(pr[p].ret.val[1])
       /\ \A p, q \in Procs :
             p # q => pr[p].ret.val[1] # pr[q].ret.val[1]

Tasks == Modules \X IdPool
Stores == {"store_result", "store_error"}

\* C3: single-state invariant.  In every reachable state, those inside
\* process, get_task, store_result and store_error included, every
\* (module, id) has a record in at most one of the four containers (a task
\* never has both a result and an error).
C3_SingleState ==
    \A t \in Tasks : Cardinality(holders(fs, t[1], t[2])) <= 1

\* C4: idempotent submit.  A process(module, doc) call returns get_id(doc);
\* when the id had a status other than UNKNOWN the store is as it was
\* before the call, and when it was UNKNOWN the store has gained exactly one
\* record, the PENDING record of the id, which holds doc.
C4_IdempotentSubmit ==
    \A p \in Procs :
        Finished(p, "process") =>
            LET r == pr[p]
                fn == _filename(r.module, "PENDING", r.id)
            IN  /\ r.ret = Return(get_id(r.doc))
                /\ IF status_of(snap, r.module, r.id) # "UNKNOWN"
                   THEN fs = snap
                   ELSE /\ DOMAIN fs = DOMAIN snap \cup {fn}
                        /\ fs[fn].content = r.doc
                        /\ \A q \in DOMAIN snap : fs[q] = snap[q]

\* A document was submitted again after its task had been finished.
C4_Witness ==
    \E p \in Procs :
        /\ Finished(p, "process")
        /\ status_of(snap, pr[p].module, pr[p].id) = "DONE"
        /\ pr[p].doc # pr[p].id

\* C5: lifecycle ordering.  Over every interleaving of the calls, the status
\* of a (module, id) changes only from UNKNOWN to PENDING in a process call,
\* from PENDING to STARTED in a get_task call, and from STARTED, DONE or
\* ERROR to DONE or ERROR in a store call.
C5_LifecycleEdges ==
    [][\A t \in Tasks :
          LET a == status_of(fs, t[1], t[2])
              b == status_of(fs', t[1], t[2])
              by(ops) == \E p \in Procs : pr'[p] # pr[p] /\ pr[p].op \in ops
          IN  \/ a = b
              \/ a = "UNKNOWN" /\ b = "PENDING" /\ by({"process"})
              \/ a = "PENDING" /\ b = "STARTED" /\ by({"get_task"})
              \/ /\ a \in {"STARTED", "DONE", "ERROR"}
                 /\ b \in {"DONE", "ERROR"}
                 /\ by(Stores)]_vars

\* C6: invalid transition.  A store_result or store_error call returns
\* normally exactly when the status of the id was STARTED, DONE or ERROR;
\* when it was PENDING or UNKNOWN the call raises ValueError and the store
\* is as it was before the call.
C6_InvalidTransition ==
    \A p \in Procs :
        (Finished(p, "store_result") \/ Finished(p, "store_error")) =>
            LET r == pr[p]
                before == status_of(snap, r.module, r.id)
            IN  /\ r.ret.kind = "return"
                     <=> before \in {"STARTED", "DONE", "ERROR"}
                /\ before \in {"PENDING", "UNKNOWN"}
                     => r.ret.kind = "ValueError" /\ fs = snap

\* A result was offered for a task that was still PENDING.
C6_Witness ==
    \E p \in Procs :
        /\ Finished(p, "store_result")
        /\ status_of(snap, pr[p].module, pr[p].id) = "PENDING"

\* C7: result reflects the latest successful store.  After store_result
\* returned, the id is DONE, only the DONE container holds it and its record
\* is the text stored; likewise ERROR after store_error; and result returns
\* the text of the DONE record, or raises with the text of the ERROR record.
C7_ResultIsLatestStore ==
    \A p \in Procs :
        LET r == pr[p]
            done == _filename(r.module, "DONE", r.id)
            error == _filename(r.module, "ERROR", r.id)
        IN  /\ Returned(p, "store_result") =>
                 /\ holders(fs, r.module, r.id) = {"DONE"}
                 /\ fs[done].content = r.doc
            /\ Returned(p, "store_error") =>
                 /\ holders(fs, r.module, r.id) = {"ERROR"}
                 /\ fs[error].content = r.doc
            /\ (Finished(p, "result")
                  /\ status_of(snap, r.module, r.id) = "DONE") =>
                 r.ret = Return(snap[done].content)
            /\ (Finished(p, "result")
                  /\ status_of(snap, r.module, r.id) = "ERROR") =>
                 r.ret = Raise("Exception", snap[error].content)

\* The place of task t in the order of submission.
Submitted(t) == CHOOSE i \in 1..Len(submitted) : submitted[i] = t

\* C8: FIFO claim.  A get_task call that ran alone returned (None, None)
\* and left the store as it was when the module had no PENDING record;
\* otherwise it returned the id of the PENDING record submitted earliest
\* with the document submitted under that id, and moved that record, and
\* no other, from PENDING to STARTED.
C8_FifoClaim ==
    \A p \in Procs :
        Finished(p, "get_task") =>
            LET r == pr[p]
                pending == listdir(snap, r.module, "PENDING")
                first == CHOOSE id \in pending :
                            \A other \in pending :
                                Submitted(<<r.module, id>>)
                                  <= Submitted(<<r.module, other>>)
                fn_from == _filename(r.module, "PENDING", first)
                fn_to == _filename(r.module, "STARTED", first)
            IN  IF pending = {}
                THEN r.ret = Return(<<None, None>>) /\ fs = snap
                ELSE /\ r.ret = Return(<<first, snap[fn_from].content>>)
                     /\ DOMAIN fs = (DOMAIN snap \ {fn_from}) \cup {fn_to}
                     /\ fs[fn_to].content = snap[fn_from].content
                     /\ \A q \in DOMAIN snap \ {fn_from} : fs[q] = snap[q]

\* C9: submission races are safe.  With process calls for the same content
\* running concurrently with each other and with get_task and store calls,
\* every process call returns get_id(doc), no task has had a PENDING record
\* created twice, no task has been returned by get_task twice, and no task
\* that get_task has returned is PENDING.
C9_SubmissionRaceSafe ==
    /\ \A p \in Procs :
          Finished(p, "process") => pr[p].ret = Return(get_id(pr[p].doc))
    /\ \A i, j \in 1..Len(submitted) : i # j => submitted[i] # submitted[j]
    /\ twice = {}
    /\ \A t \in handed : ~exists(fs, _filename(t[1], "PENDING", t[2]))

\* C10: last-write-wins terminal overwrite.  When a store_result and a
\* store_error call on the same STARTED, DONE or ERROR task have both
\* finished, the task is in exactly one terminal container: DONE with the
\* result stored, or ERROR with the error stored.
C10_LastWriteWins ==
    \A p, q \in Procs :
        ( /\ Finished(p, "store_result") /\ Finished(q, "store_error")
          /\ pr[p].module = pr[q].module /\ pr[p].id = pr[q].id
          /\ pr[p].st \in {"STARTED", "DONE", "ERROR"}
          /\ pr[q].st \in {"STARTED", "DONE", "ERROR"} )
        => LET m == pr[p].module
               id == pr[p].id
               h == holders(fs, m, id)
           IN  \/ /\ h = {"DONE"}
                  /\ fs[_filename(m, "DONE", id)].content = pr[p].doc
               \/ /\ h = {"ERROR"}
                  /\ fs[_filename(m, "ERROR", id)].content = pr[q].doc

(***************************************************************************)
(* The REST server (nlpipe/restserver.py) on an FSClient store, and        *)
(* HTTPClient (nlpipe/client.py).  A handler makes its call of app.client, *)
(* whose steps are those above, and answers from how the call ended; an    *)
(* HTTPClient method sends one request and returns from the response.      *)
(***************************************************************************)
\* A mutated STATUS_CODES: a STARTED task is answered like a DONE one.
STATUS_CODES_started == [UNKNOWN |-> 404, PENDING |-> 202, STARTED |-> 200,
                         DONE |-> 200, ERROR |-> 500]

STATUS_CODES == [UNKNOWN |-> 404, PENDING |-> 202, STARTED |-> 202,
                 DONE |-> 200, ERROR |-> 500]
ERROR_MIME == "application/prs.error+text"

Response(code, text) == [NoResp EXCEPT !.code = code, !.text = text]

\* Flask's answer to an exception the handler does not catch.
InternalServerError == Response(500, None)

\* How each handler answers, from the outcome ret of its app.client call.
task_status_response(ret) ==
    IF ret.kind = "return"
    THEN [NoResp EXCEPT !.code = STATUS_CODES[ret.val], !.Status = ret.val]
    ELSE InternalServerError

result_response(ret) ==
    IF ret.kind = "return" THEN Response(200, ret.val)
    ELSE IF ret.kind = "FileNotFoundError" THEN Response(404, None)
    ELSE Response(500, <<ret.kind, ret.val>>)

get_task_response(ret) ==
    IF ret.kind # "return" THEN InternalServerError
    ELSE IF ret.val[2] = None THEN Response(404, None)
    ELSE [NoResp EXCEPT !.code = 200, !.ID = ret.val[1], !.text = ret.val[2]]

put_results_response(ret) ==
    IF ret.kind = "return" THEN Response(204, "") ELSE InternalServerError

\* Response(id+"\n", status=202) with the ID header.
post_task_response(ret) ==
    IF ret.kind = "return"
    THEN [NoResp EXCEPT !.code = 202, !.ID = ret.val, !.text = ret.val \o "\n"]
    ELSE InternalServerError

\* A request is sent when the process is in no call.
Ready(p) == pr[p].pc = "done" /\ pr[p].at \in {"-", "returned"}

\* HEAD /api/modules/<module>/<id>: task_status calls app.client.status.
task_status(p, outer, module, id) ==
    /\ Ready(p)
    /\ Begin(p, [Idle EXCEPT !.op = "status", !.pc = "status",
                             !.module = module, !.id = id, !.outer = outer,
                             !.handler = "task_status", !.at = "handler"])

\* GET /api/modules/<module>/<id>: result calls app.client.result.
rest_result(p, outer, module, id) ==
    /\ Ready(p)
    /\ Begin(p, [Idle EXCEPT !.op = "result", !.pc = "status",
                             !.module = module, !.id = id, !.outer = outer,
                             !.handler = "result", !.at = "handler"])

\* GET /api/modules/<module>/: get_task calls app.client.get_task.
rest_get_task(p, outer, module) ==
    /\ Ready(p)
    /\ Begin(p, [Idle EXCEPT !.op = "get_task", !.pc = "listdir",
                             !.module = module, !.outer = outer,
                             !.handler = "get_task", !.at = "handler"])

\* PUT /api/modules/<module>/<id>: put_results calls store_error when the
\* request's content type is ERROR_MIME, and store_result otherwise.
put_results(p, outer, module, id, content_type, doc) ==
    /\ Ready(p)
    /\ Begin(p, [Idle EXCEPT !.op = IF content_type = ERROR_MIME
                                    THEN "store_error" ELSE "store_result",
                             !.pc = "status", !.module = module, !.id = id,
                             !.doc = doc, !.outer = outer,
                             !.handler = "put_results", !.at = "handler"])

\* POST /api/modules/<module>/ with an optional ?id= (None without), for a
\* module get_module knows: post_task calls app.client.process(module, doc,
\* id=id).  FSClient.process takes no id: the call raises TypeError before
\* anything runs.
post_task(p, outer, module, doc, id) ==
    /\ Ready(p)
    /\ Begin(p, [Idle EXCEPT !.op = "process", !.module = module,
                             !.doc = doc, !.id = id,
                             !.ret = Raise("TypeError", None), !.outer = outer,
                             !.handler = "post_task", !.at = "handler"])

\* The handler's app.client call has ended: the server answers.
respond(p) ==
    /\ pr[p].pc = "done" /\ pr[p].at = "handler"
    /\ LET r == pr[p]
           resp == CASE r.handler = "task_status" -> task_status_response(r.ret)
                     [] r.handler = "result" -> result_response(r.ret)
                     [] r.handler = "get_task" -> get_task_response(r.ret)
                     [] r.handler = "put_results" -> put_results_response(r.ret)
                     [] r.handler = "post_task" -> post_task_response(r.ret)
       IN  pr' = [pr EXCEPT ![p] = [r EXCEPT !.resp = resp, !.at = "responded"]]
    /\ UNCHANGED <<fs, dirs, clock, calls, snap, hist>>

\* What each HTTPClient method makes of the response.
HTTPClient_return(outer, resp) ==
    CASE outer = "HTTPClient.status" ->
           IF resp.Status # None THEN Return(resp.Status)
           ELSE Raise("Exception", resp.code)
      [] outer = "HTTPClient.process" ->
           IF resp.code # 202 THEN Raise("Exception", resp.text)
           ELSE Return(resp.ID)
      [] outer = "HTTPClient.result" ->
           IF resp.code # 200 THEN Raise("Exception", resp.text)
           ELSE Return(resp.text)
      [] outer = "HTTPClient.get_task" ->
           IF resp.code = 404 THEN Return(<<None, None>>)
           ELSE IF resp.code # 200 THEN Raise("Exception", resp.text)
           ELSE Return(<<resp.ID, resp.text>>)
      [] outer = "HTTPClient.store_result" ->
           IF resp.code # 204 THEN Raise("Exception", resp.text)
           ELSE Return(None)
      [] OTHER -> NoRet

\* The response has arrived: the HTTPClient method returns or raises (a
\* request that no HTTPClient method sent is over).
receive(p) ==
    /\ pr[p].pc = "done" /\ pr[p].at = "responded"
    /\ LET r == pr[p]
       IN  pr' = [pr EXCEPT ![p] =
                    [r EXCEPT !.out = HTTPClient_return(r.outer, r.resp),
                              !.at = "returned"]]
    /\ UNCHANGED <<fs, dirs, clock, calls, snap, hist>>

\* The methods of HTTPClient: each sends its request.
HTTPClient_status(p, module, id) ==
    task_status(p, "HTTPClient.status", module, id)

HTTPClient_process(p, module, doc) ==
    post_task(p, "HTTPClient.process", module, doc, None)

HTTPClient_result(p, module, id) ==
    rest_result(p, "HTTPClient.result", module, id)

HTTPClient_get_task(p, module) ==
    rest_get_task(p, "HTTPClient.get_task", module)

\* requests.put(url, data=result) with a str sets no Content-Type.
HTTPClient_store_result(p, module, id, text) ==
    put_results(p, "HTTPClient.store_result", module, id, None, text)

\* HTTPClient defines no store_error: Client.store_error raises
\* NotImplementedError and nothing is sent.
HTTPClient_store_error(p, module, id, text) ==
    /\ Ready(p)
    /\ Begin(p, [Idle EXCEPT !.module = module, !.id = id, !.doc = text,
                             !.outer = "HTTPClient.store_error",
                             !.at = "returned",
                             !.out = Raise("NotImplementedError", None)])

(***************************************************************************)
(* SpecRest: one HTTPClient and one server on an FSClient store; request   *)
(* follows request.  Documents are also put into the store by              *)
(* FSClient.process on the server's side, errors by PUT requests of the    *)
(* error content type.                                                     *)
(***************************************************************************)
NextRest ==
    \/ \E d \in {docA, docB} :
          /\ Ready("p1")
          /\ process("p1", "m1", d)
          /\ UNCHANGED calls
    \/ /\ \/ \E id \in IdPool : HTTPClient_status("p1", "m1", id)
          \/ \E id \in IdPool : HTTPClient_result("p1", "m1", id)
          \/ HTTPClient_get_task("p1", "m1")
          \/ \E id \in IdPool, t \in TextPool :
                HTTPClient_store_result("p1", "m1", id, t)
          \/ \E id \in IdPool, t \in TextPool :
                put_results("p1", "PUT", "m1", id, ERROR_MIME, t)
          \/ \E id \in IdPool, t \in TextPool :
                HTTPClient_store_error("p1", "m1", id, t)
          \/ \E d \in {docA, docB} : HTTPClient_process("p1", "m1", d)
          \/ \E d \in {docA, docB}, id \in IdPool :
                post_task("p1", "POST", "m1", d, id)
       /\ UNCHANGED calls
    \/ Step("p1")
    \/ respond("p1")
    \/ receive("p1")

SpecRest == Init /\ [][NextRest]_vars

\* The request of process p has been answered.
Answered(p, handler) ==
    /\ pr[p].handler = handler
    /\ pr[p].at \in {"responded", "returned"}

\* C11: result of a task that is not finished.  GET /api/modules/{module}/
\* {id} answers 404 when the status of the task is UNKNOWN, PENDING or
\* STARTED, 200 with the stored result when it is DONE, and 500 when it is
\* ERROR, and the store is as it was before the request.
C11_ResultNotFinished ==
    \A p \in Procs :
        Answered(p, "result") =>
            LET r == pr[p]
                s == status_of(snap, r.module, r.id)
            IN  /\ s \in {"UNKNOWN", "PENDING", "STARTED"} => r.resp.code = 404
                /\ s = "DONE" =>
                     /\ r.resp.code = 200
                     /\ r.resp.text
                          = snap[_filename(r.module, "DONE", r.id)].content
                /\ s = "ERROR" => r.resp.code = 500
                /\ fs = snap

(***************************************************************************)
(* Client.process_inline(module, doc), on an FSClient.                     *)
(***************************************************************************)
\* The call of self.op that process_inline makes at position at.
inline_call(r, op, at) ==
    [Idle EXCEPT !.op = op, !.pc = "status", !.module = r.module,
                 !.id = get_id(r.doc), !.doc = r.doc,
                 !.outer = "process_inline", !.at = at]

\* id = get_id(doc), then the first self.status(module, id).
process_inline(p, module, doc) ==
    /\ Ready(p)
    /\ Begin(p, inline_call([module |-> module, doc |-> doc], "status",
                            "check"))

\* The call process_inline made has ended: the next one, or the return.
\* An exception of a call ends process_inline.
process_inline_next(p) ==
    /\ pr[p].pc = "done" /\ pr[p].outer = "process_inline"
    /\ pr[p].at \in {"check", "submit", "poll", "result"}
    /\ LET r == pr[p]
       IN  IF r.at = "result" \/ r.ret.kind # "return"
           THEN /\ pr' = [pr EXCEPT ![p] =
                            [r EXCEPT !.out = r.ret, !.at = "returned"]]
                /\ UNCHANGED <<fs, dirs, clock, snap, hist>>
           ELSE IF r.at = "check" /\ r.ret.val = "UNKNOWN"
           THEN Begin(p, inline_call(r, "process", "submit"))
           ELSE IF r.at = "poll" /\ r.ret.val \in {"DONE", "ERROR"}
           THEN Begin(p, inline_call(r, "result", "result"))
           ELSE Begin(p, inline_call(r, "status", "poll"))
    /\ UNCHANGED calls

\* A worker: it calls get_task, and for a task it got it calls store_result
\* or store_error with that id.
worker(p, module, results, errors) ==
    /\ UNCHANGED calls
    /\ IF Returned(p, "get_task") /\ IsTask(pr[p].ret.val[1])
       THEN \/ \E t \in results :
                 store_result(p, module, pr[p].ret.val[1], t)
            \/ \E t \in errors :
                 store_error(p, module, pr[p].ret.val[1], t)
       ELSE get_task(p, module)

(***************************************************************************)
(* SpecInline: a client calls process_inline, time after time, and a       *)
(* worker serves the module.  Both are running processes: each keeps       *)
(* taking its next step.                                                   *)
(***************************************************************************)
client_step(p) == Step(p) \/ process_inline_next(p)
worker_step(p) == Step(p) \/ worker(p, "m1", TextPool, {textX})

NextInline ==
    \/ \E d \in {docA, docB} :
          /\ process_inline("p1", "m1", d)
          /\ UNCHANGED calls
    \/ client_step("p1")
    \/ worker_step("p2")

SpecInline ==
    /\ Init /\ [][NextInline]_vars
    /\ WF_vars(client_step("p1"))
    /\ WF_vars(worker_step("p2"))

Calling(p) == pr[p].outer = "process_inline" /\ pr[p].at # "returned"
Inlined(p) == pr[p].outer = "process_inline" /\ pr[p].at = "returned"

\* What C12 says of a state: process_inline asks for the result of a
\* task that is DONE or ERROR, and has returned what the task's record holds,
\* for a task a worker has claimed.
C12_Safe ==
    \A p \in Procs :
        LET r == pr[p]
            h == holders(fs, r.module, r.id)
        IN  /\ (Calling(p) /\ r.at = "result") => h \cap {"DONE", "ERROR"} # {}
            /\ Inlined(p) =>
                 /\ <<r.module, r.id>> \in handed
                 /\ \/ /\ h = {"DONE"}
                       /\ r.out = Return(fs[_filename(r.module, "DONE",
                                                      r.id)].content)
                    \/ /\ h = {"ERROR"}
                       /\ r.out = Raise("Exception",
                                        fs[_filename(r.module, "ERROR",
                                                     r.id)].content)

\* What C12 says of a step: process_inline creates the PENDING record of a
\* task only when no container holds the task.
C12_Submit ==
    \A p \in Procs :
        (Calling(p) /\ pr[p].pc = "open" /\ pr'[p].pc = "write")
            => holders(fs, pr[p].module, pr[p].id) = {}

\* C12: process_inline liveness.  With a worker that keeps claiming PENDING
\* tasks and storing a result or an error for every task it claimed, every
\* process_inline(module, doc) call returns; it submits the document only
\* when its status is UNKNOWN, returns only after the status of get_id(doc)
\* is DONE or ERROR, and then returns the stored result or raises with the
\* stored error; it does not return for a task no worker has claimed.
C12_ProcessInline ==
    /\ []C12_Safe
    /\ [][C12_Submit]_vars
    /\ \A p \in Procs : Calling(p) ~> Inlined(p)

(***************************************************************************)
(* Client.get_tasks(module, n), on an FSClient: a generator.  Calling it   *)
(* runs nothing; each next() of the consumer runs the loop up to its       *)
(* yield.                                                                  *)
(***************************************************************************)
\* Largest n of a get_tasks call.
MaxN == 2

get_tasks(p, module, n) ==
    /\ Ready(p)
    /\ Begin(p, [Idle EXCEPT !.module = module, !.outer = "get_tasks",
                             !.at = "suspended", !.n = n])
    /\ calls' = [calls EXCEPT ![p] = 0]

\* next(): the loop over range(n) goes on, with self.get_task(module), or
\* is over (StopIteration).  calls counts the get_task calls of the generator.
get_tasks_next(p) ==
    /\ pr[p].pc = "done" /\ pr[p].outer = "get_tasks"
    /\ pr[p].at = "suspended"
    /\ LET r == pr[p]
       IN  IF Len(r.items) = r.n
           THEN /\ pr' = [pr EXCEPT ![p] = [r EXCEPT !.at = "returned"]]
                /\ UNCHANGED <<fs, dirs, clock, calls, snap, hist>>
           ELSE /\ Begin(p, [Idle EXCEPT !.op = "get_task", !.pc = "listdir",
                                         !.module = r.module,
                                         !.outer = "get_tasks",
                                         !.at = "running", !.n = r.n,
                                         !.items = r.items])
                /\ calls' = [calls EXCEPT ![p] = @ + 1]

\* yield self.get_task(module): whatever get_task returned is yielded; an
\* exception of get_task ends the generator.
get_tasks_yield(p) ==
    /\ pr[p].pc = "done" /\ pr[p].outer = "get_tasks"
    /\ pr[p].at = "running"
    /\ LET r == pr[p]
       IN  pr' = [pr EXCEPT ![p] =
                    IF r.ret.kind = "return"
                    THEN [r EXCEPT !.items = Append(@, r.ret.val),
                                   !.at = "suspended"]
                    ELSE [r EXCEPT !.out = r.ret, !.at = "returned"]]
    /\ UNCHANGED <<fs, dirs, clock, calls, snap, hist>>

(***************************************************************************)
(* SpecTasks: a worker consumes get_tasks generators; between its next()   *)
(* calls a client submits documents.  No two calls overlap.                *)
(***************************************************************************)
NextTasks ==
    \/ \E d \in {docA, docB} :
          /\ Quiescent
          /\ process("p2", "m1", d)
          /\ UNCHANGED calls
    \/ \E n \in 0..MaxN :
          /\ Quiescent
          /\ get_tasks("p1", "m1", n)
    \/ Quiescent /\ get_tasks_next("p1")
    \/ get_tasks_yield("p1")
    \/ \E p \in Procs :
          \/ status_exists(p)
          \/ _check_dirs(p)
          \/ write_open(p)
          \/ write_close(p)
          \/ get_task_listdir(p)
          \/ get_task_min(p)
          \/ get_task_move(p)
          \/ read(p)

SpecTasks == Init /\ [][NextTasks]_vars

\* C13: get_tasks(module, n) yields one (id, doc) pair per task it claimed
\* through get_task and nothing else, at most n pairs; it calls get_task
\* only when the consumer asks for the next pair; and when fewer than n
\* tasks are PENDING it yields the tasks that were claimed and then ends.
C13_GetTasks ==
    \A p \in Procs :
        pr[p].outer = "get_tasks" =>
            LET r == pr[p]
            IN  /\ Len(r.items) <= r.n
                /\ calls[p] = Len(r.items) + (IF r.at = "running" THEN 1 ELSE 0)
                /\ \A i \in 1..Len(r.items) :
                      /\ IsTask(r.items[i][1])
                      /\ <<r.module, r.items[i][1]>> \in handed

\* The HTTPClient methods of readers and workers.
Remote == {"HTTPClient.status", "HTTPClient.get_task",
           "HTTPClient.store_result", "HTTPClient.result"}

\* C14: backend equivalence for readers and workers.  A status, get_task,
\* store_result or result call made through HTTPClient against the REST
\* server ends as the FSClient call the server made on its store ended: it
\* returns the same value, or both fail; the store is changed as the
\* FSClient call changes it (not at all by status and result and by a
\* refused store_result; by get_task, the claimed record moved from PENDING
\* to STARTED; by store_result, the task DONE with the text stored); the
\* HEAD response code is 404, 202, 202, 200, 500 for UNKNOWN, PENDING,
\* STARTED, DONE, ERROR with the Status header naming the status; and an
\* empty queue gives (None, None).
C14_BackendEquivalence ==
    \A p \in Procs :
        (pr[p].outer \in Remote /\ pr[p].at = "returned") =>
            LET r == pr[p]
                s == status_of(snap, r.module, r.id)
                pending == listdir(snap, r.module, "PENDING")
            IN  /\ (r.out.kind = "return") <=> (r.ret.kind = "return")
                /\ r.ret.kind = "return" => r.out.val = r.ret.val
                /\ r.outer = "HTTPClient.status" =>
                     /\ r.out = Return(s)
                     /\ r.resp.Status = s
                     /\ r.resp.code = CASE s = "UNKNOWN" -> 404
                                        [] s \in {"PENDING", "STARTED"} -> 202
                                        [] s = "DONE" -> 200
                                        [] s = "ERROR" -> 500
                     /\ fs = snap
                /\ r.outer = "HTTPClient.result" =>
                     /\ r.out.kind = "return" <=> s = "DONE"
                     /\ fs = snap
                /\ r.outer = "HTTPClient.get_task" =>
                     IF pending = {}
                     THEN r.out = Return(<<None, None>>) /\ fs = snap
                     ELSE /\ r.out.kind = "return"
                          /\ r.out.val[1] \in pending
                          /\ fs = rename(snap,
                                   _filename(r.module, "PENDING", r.out.val[1]),
                                   _filename(r.module, "STARTED", r.out.val[1]),
                                   clock)
                /\ r.outer = "HTTPClient.store_result" =>
                     IF s \in {"STARTED", "DONE", "ERROR"}
                     THEN /\ r.out = Return(None)
                          /\ holders(fs, r.module, r.id) = {"DONE"}
                          /\ fs[_filename(r.module, "DONE", r.id)].content
                               = r.doc
                     ELSE r.out.kind # "return" /\ fs = snap

\* A worker has got a task through HTTPClient.get_task.
C14_Witness ==
    \E p \in Procs :
        /\ pr[p].outer = "HTTPClient.get_task" /\ pr[p].at = "returned"
        /\ pr[p].out.kind = "return" /\ IsTask(pr[p].out.val[1])
        /\ pr[p].resp.code = 200

\* C15: remote submit.  POST /api/modules/{module}/ for a known module, as
\* HTTPClient.process sends it, answers 202 with the task id in the ID
\* header, which HTTPClient.process returns; the id is the ?id= value when
\* one is given and get_id(doc) otherwise; afterwards the task is PENDING
\* if it was UNKNOWN and has its previous status otherwise.
C15_RemoteSubmit ==
    \A p \in Procs :
        Answered(p, "post_task") =>
            LET r == pr[p]
                id == IF r.id # None THEN r.id ELSE get_id(r.doc)
                before == status_of(snap, r.module, id)
            IN  /\ r.resp.code = 202
                /\ r.resp.ID = id
                /\ status_of(fs, r.module, id)
                     = IF before = "UNKNOWN" THEN "PENDING" ELSE before
                /\ (r.outer = "HTTPClient.process" /\ r.at = "returned")
                     => r.out = Return(id)

\* C16: remote store_error.  store_error(module, id, E) through HTTPClient
\* on a STARTED, DONE or ERROR task sends a PUT of the error content type
\* and returns, and the task is then ERROR with text E on the server; a
\* store_result, a PUT without that content type, leaves the task DONE with
\* the text stored.
C16_RemoteStoreError ==
    \A p \in Procs :
        LET r == pr[p]
            h == holders(fs, r.module, r.id)
        IN  ( /\ r.outer \in {"HTTPClient.store_error",
                              "HTTPClient.store_result"}
              /\ r.at = "returned"
              /\ status_of(snap, r.module, r.id)
                   \in {"STARTED", "DONE", "ERROR"} )
            => /\ r.out = Return(None)
               /\ r.handler = "put_results"
               /\ IF r.outer = "HTTPClient.store_error"
                  THEN /\ h = {"ERROR"}
                       /\ fs[_filename(r.module, "ERROR", r.id)].content
                            = r.doc
                  ELSE /\ h = {"DONE"}
                       /\ fs[_filename(r.module, "DONE", r.id)].content
                            = r.doc

\* C17: status is a pure lookup.  A status(module, id) call, for an id with
\* or without a record and a module with or without its directories,
\* returns one of UNKNOWN, PENDING, STARTED, DONE, ERROR and does not raise;
\* it returns UNKNOWN exactly when no container holds the id, and otherwise
\* the status of a container that holds it; the store is as it was before.
C17_StatusPure ==
    \A p \in Procs :
        Finished(p, "status") =>
            LET r == pr[p]
                h == holders(snap, r.module, r.id)
            IN  /\ r.ret.kind = "return"
                /\ r.ret.val \in {"UNKNOWN", "PENDING", "STARTED", "DONE",
                                  "ERROR"}
                /\ r.ret.val = "UNKNOWN" <=> h = {}
                /\ r.ret.val # "UNKNOWN" => r.ret.val \in h
                /\ fs = snap

\* status has answered for an id never submitted, in a module whose
\* directories do not exist.
C17_Witness ==
    \E p \in Procs :
        /\ Finished(p, "status")
        /\ pr[p].module \notin dirs
        /\ pr[p].ret = Return("UNKNOWN")

(***************************************************************************)
(* POST /api/modules/<module>/bulk/status (restserver.py, bulk_status).    *)
(***************************************************************************)
\* Request bodies: no JSON, the empty list, lists of ids, a number.
bodyBad == "["
bodyEmpty == "[]"
bodyA == "[\"0x0cc175b9c0f1b6a831c399e269772661\"]"
bodyAB == "[\"0x0cc175b9c0f1b6a831c399e269772661\", \"0x351e12d172f9cc1c7680570daa1d3b12\"]"
bodyBA == "[\"0x351e12d172f9cc1c7680570daa1d3b12\", \"0x0cc175b9c0f1b6a831c399e269772661\"]"
bodyAA == "[\"0x0cc175b9c0f1b6a831c399e269772661\", \"0x0cc175b9c0f1b6a831c399e269772661\"]"
bodyNumber == "7"
BodyPool == {"", bodyBad, bodyEmpty, bodyA, bodyAB, bodyBA, bodyAA, bodyNumber}

\* request.get_json(force=True) of these bodies: the value json.loads gives
\* (a list or a number), or the exception of a body that is not JSON.
get_json(body) ==
    CASE body \in {"", bodyBad} -> [ok |-> FALSE, kind |-> "-", val |-> None]
      [] body = bodyEmpty -> [ok |-> TRUE, kind |-> "list", val |-> <<>>]
      [] body = bodyA -> [ok |-> TRUE, kind |-> "list", val |-> <<idA>>]
      [] body = bodyAB -> [ok |-> TRUE, kind |-> "list", val |-> <<idA, idB>>]
      [] body = bodyBA -> [ok |-> TRUE, kind |-> "list", val |-> <<idB, idA>>]
      [] body = bodyAA -> [ok |-> TRUE, kind |-> "list", val |-> <<idA, idA>>]
      [] body = bodyNumber -> [ok |-> TRUE, kind |-> "number", val |-> 7]

\* Python's "not ids".
falsy(j) ==
    \/ j.kind = "list" /\ j.val = <<>>
    \/ j.kind = "number" /\ j.val = 0

\* The app.client.status(module, str(id)) call of the comprehension for the
\* first of ids.
bulk_status_call(module, body, ids, statuses) ==
    [Idle EXCEPT !.op = "status", !.pc = "status", !.module = module,
                 !.id = Head(ids), !.doc = body, !.handler = "bulk_status",
                 !.at = "handler", !.ids = Tail(ids), !.items = statuses]

\* bulk_status: a body that is not JSON, or an empty value, is answered 400;
\* then the comprehension iterates over ids, which raises TypeError (500)
\* for a number.
bulk_status(p, module, body) ==
    /\ Ready(p)
    /\ LET j == get_json(body)
           answer(resp) == [Idle EXCEPT !.module = module, !.doc = body,
                                        !.handler = "bulk_status",
                                        !.at = "responded", !.resp = resp]
       IN  IF ~j.ok \/ falsy(j)
           THEN Begin(p, answer(Response(400, None)))
           ELSE IF j.kind # "list"
           THEN Begin(p, answer(InternalServerError))
           ELSE Begin(p, bulk_status_call(module, body, j.val, <<>>))

\* A status call of the comprehension has returned: statuses[id] is set;
\* the next id, or the answer json.dumps(statuses), 200.  (The body of the
\* answer is kept as the dict.)
bulk_status_next(p) ==
    /\ pr[p].pc = "done" /\ pr[p].handler = "bulk_status"
    /\ pr[p].at = "handler"
    /\ LET r == pr[p]
           statuses == (r.id :> r.ret.val) @@ r.items
       IN  IF r.ids = <<>>
           THEN /\ pr' = [pr EXCEPT ![p] =
                            [r EXCEPT !.items = statuses,
                                      !.resp = Response(200, statuses),
                                      !.at = "responded"]]
                /\ UNCHANGED <<fs, dirs, clock, snap, hist>>
           ELSE Begin(p, bulk_status_call(r.module, r.doc, r.ids, statuses))
    /\ UNCHANGED calls

(***************************************************************************)
(* SpecBulk: bulk status requests on a store that FSClient calls fill;     *)
(* request follows call.                                                   *)
(***************************************************************************)
NextBulk ==
    \/ /\ Ready("p1")
       /\ Call("p1", {"m1"}, {docA, docB}, IdPool, {textX}, {textX})
       /\ UNCHANGED calls
    \/ \E body \in BodyPool :
          /\ bulk_status("p1", "m1", body)
          /\ UNCHANGED calls
    \/ bulk_status_next("p1")
    \/ Step("p1")
    \/ receive("p1")

SpecBulk == Init /\ [][NextBulk]_vars

\* The elements of a sequence.
Range(seq) == {seq[i] : i \in 1..Len(seq)}

\* C18: bulk status.  POST /api/modules/{module}/bulk/status with a JSON
\* list of ids answers 200 with a map whose keys are the ids of the list and
\* whose value for each id is status(module, id), whatever the order of the
\* list, and changes no state; a body that is not JSON, not a list, or
\* empty is answered with 400.
C18_BulkStatus ==
    \A p \in Procs :
        Answered(p, "bulk_status") =>
            LET r == pr[p]
                j == get_json(r.doc)
            IN  IF j.ok /\ j.kind = "list" /\ j.val # <<>>
                THEN /\ r.resp.code = 200
                     /\ DOMAIN r.resp.text = Range(j.val)
                     /\ \A id \in Range(j.val) :
                           r.resp.text[id] = status_of(fs, r.module, id)
                     /\ fs = snap
                ELSE r.resp.code = 400

(***************************************************************************)
(* SpecId: documents of every shape are submitted, one after the other.    *)
(***************************************************************************)
NextId ==
    \/ \E d \in DocPool \cup {docZ} :
          /\ process("p1", "m1", d)
          /\ UNCHANGED calls
    \/ status_exists("p1")
    \/ _check_dirs("p1")
    \/ write_open("p1")
    \/ write_close("p1")

SpecId == Init /\ [][NextId]_vars

\* The digits of a hexdigest.
HexDigits == {"0", "1", "2", "3", "4", "5", "6", "7", "8", "9",
              "a", "b", "c", "d", "e", "f"}

\* doc has the shape of a generated id: "0x" and 32 hex digits.
IsGeneratedId(doc) ==
    /\ Len(chars(doc)) = IdLen
    /\ SubSeq(chars(doc), 1, 2) = <<"0", "x">>
    /\ \A i \in 3..IdLen : chars(doc)[i] \in HexDigits

\* C19: task identity.  For the document d of a process call, which returns
\* get_id(d): get_id(get_id(d)) = get_id(d); get_id(d) is d itself only when
\* d has the shape of a generated id ("0x" and 32 hex digits); for every
\* other document it is "0x" followed by the md5 hexdigest of d, so that two
\* such documents have the same id only when their digests are equal.
C19_TaskIdentity ==
    \A p \in Procs :
        Finished(p, "process") =>
            LET d == pr[p].doc
                hash(x) == str(<<"0", "x">> \o md5_hexdigest(x))
                others == {x \in DocPool \cup {docZ} : ~IsGeneratedId(x)}
            IN  /\ pr[p].ret = Return(get_id(d))
                /\ get_id(get_id(d)) = get_id(d)
                /\ get_id(d) = d => IsGeneratedId(d)
                /\ ~IsGeneratedId(d) => get_id(d) = hash(d)
                /\ \A x \in others :
                      (d \in others /\ get_id(x) = get_id(d))
                          => md5_hexdigest(x) = md5_hexdigest(d)

(***************************************************************************)
(* A crash: the process of a call dies between two of its file-system      *)
(* calls.  The files it had open are closed as they are, and the call is   *)
(* over; what it has done to the store stays.                              *)
(***************************************************************************)
crash(p) ==
    /\ pr[p].pc # "done"
    /\ pr' = [pr EXCEPT ![p] = Done(@, Raise("Crash", None))]
    /\ fs' = [q \in DOMAIN fs |-> [fs[q] EXCEPT !.w = @ \ {p}]]
    /\ UNCHANGED <<dirs, clock, calls, snap, hist>>

(***************************************************************************)
(* SpecCrash: one client makes call after call on one task; any call may   *)
(* crash at any step.                                                      *)
(***************************************************************************)
NextCrash ==
    \/ /\ Call("p1", {"m1"}, {docA}, {idA}, TextPool, TextPool)
       /\ UNCHANGED calls
    \/ Step("p1")
    \/ crash("p1")

SpecCrash == Init /\ [][NextCrash]_vars

\* C20: write-then-clear ordering.  In every step, those of a store_result
\* or store_error call and a crash inside one included, a task that has a
\* record in some container still has one afterwards; and when a store call
\* removes the prior STARTED or opposite-terminal record, the new terminal
\* record is there, before and after the removal, and holds the text the
\* call stores.
C20_WriteThenClear ==
    [][/\ \A t \in Tasks :
             holders(fs, t[1], t[2]) # {} => holders(fs', t[1], t[2]) # {}
       /\ \A p \in Procs :
             LET r == pr[p]
                 new == _filename(r.module, target(r.op), r.id)
                 old == _filename(r.module, r.st, r.id)
             IN  ( /\ r.op \in Stores /\ r.st \in DOMAIN STATUS
                   /\ exists(fs, old) /\ ~exists(fs', old) )
                   => /\ r.st \in cleared(r.op)
                      /\ exists(fs, new) /\ fs[new].content = r.doc
                      /\ exists(fs', new) /\ fs'[new].content = r.doc]_vars

\* A store_result call on a STARTED task crashed after its write and before
\* its removal of the STARTED record: both records are there, and the DONE
\* record holds the result.
C20_Witness ==
    \E p \in Procs :
        /\ pr[p].op = "store_result" /\ pr[p].ret.kind = "Crash"
        /\ pr[p].st = "STARTED"
        /\ holders(fs, pr[p].module, pr[p].id) = {"STARTED", "DONE"}
        /\ fs[_filename(pr[p].module, "DONE", pr[p].id)].content = pr[p].doc

(***************************************************************************)
(* SpecIso: one client makes call after call on two ids of module "m1"     *)
(* and on the first of them under module "m2".                             *)
(***************************************************************************)
NextIso ==
    \/ /\ \/ Call("p1", {"m1"}, {docA, docB}, IdPool, {textX}, {textY})
          \/ Call("p1", {"m2"}, {docA}, {idA}, {textX}, {textY})
       /\ UNCHANGED calls
    \/ Step("p1")

SpecIso == Init /\ [][NextIso]_vars

\* The records of task t in store f: the files and what they hold.
records(f, t) ==
    [s \in holders(f, t[1], t[2]) |-> f[_filename(t[1], s, t[2])]]

Changing == {"process", "get_task", "store_result", "store_error"}

\* C21: per-task isolation.  At every point of a process, get_task,
\* store_result or store_error call, every (module, id) other than the one
\* the call names or returns, another id of the same module or the same id
\* under another module, has the records it had when the call began: the
\* same status, document and outcome.
C21_TaskIsolation ==
    \A p \in Procs :
        pr[p].op \in Changing =>
            \A t \in Tasks :
                t # <<pr[p].module, pr[p].id>>
                    => records(fs, t) = records(snap, t)

\* A store_error call has made a DONE task of "m1" ERROR while another id
\* of "m1" and the same id under "m2" had records of their own.
C21_Witness ==
    \E p \in Procs :
        /\ Returned(p, "store_error")
        /\ pr[p].module = "m1" /\ pr[p].id = idA
        /\ status_of(snap, "m1", idA) = "DONE"
        /\ status_of(fs, "m1", idA) = "ERROR"
        /\ status_of(fs, "m1", idB) = "STARTED"
        /\ status_of(fs, "m2", idA) = "DONE"

(***************************************************************************)
(* SpecObserve: calls that do not overlap bring one task to some status;   *)
(* then a reader calls status on it while a worker makes one get_task,     *)
(* store_result or store_error call on it.  calls marks the two calls      *)
(* that overlap; no call follows them, so snap stays the store the status  *)
(* call began with.                                                        *)
(***************************************************************************)
Observing == \E q \in Procs : calls[q] > 0

NextObserve ==
    \/ /\ Quiescent /\ ~Observing
       /\ \/ process("p2", "m1", docA)
          \/ get_task("p2", "m1")
          \/ store_result("p2", "m1", idA, textX)
          \/ store_error("p2", "m1", idA, textY)
       /\ UNCHANGED calls
    \/ /\ calls["p1"] = 0
       /\ pr["p2"].pc = "done" \/ calls["p2"] = 1
       /\ calls' = [calls EXCEPT !["p1"] = 1]
       /\ status("p1", "m1", idA)
    \/ /\ calls["p2"] = 0
       /\ calls' = [calls EXCEPT !["p2"] = 1]
       /\ \/ get_task("p2", "m1")
          \/ store_result("p2", "m1", idA, textX)
          \/ store_error("p2", "m1", idA, textY)
    \/ \E p \in Procs : Step(p)

SpecObserve == Init /\ [][NextObserve]_vars

\* C22: consistent status observation.  A status(module, id) call that
\* runs while a get_task, store_result or store_error call works on the
\* same id returns a status the task held during the call, that is the
\* status it had when the call began or the one the other call has brought
\* it to; and it does not return UNKNOWN for an id that had a record when
\* the call began and has had one ever since.
C22_ConsistentStatus ==
    \A p \in Procs :
        (Finished(p, "status") /\ calls[p] = 1) =>
            LET r == pr[p]
            IN  /\ r.ret.val \in {status_of(snap, r.module, r.id),
                                  status_of(fs, r.module, r.id)}
                /\ holders(snap, r.module, r.id) # {}
                     => r.ret.val # "UNKNOWN"

====
